---------------------------- MODULE Spec2Model ----------------------------
(***************************************************************************)
(* A model of gpsd's two decoders:                                         *)
(*   - subframe.c: gpsd_interpret_subframe_raw / gpsd_interpret_subframe,  *)
(*     which turn a 10-word GPS navigation subframe into updates of the    *)
(*     receiver's time context (gps_week, leap_seconds, valid);            *)
(*   - libgps.c: gps_unpack / gps_poll, which unpack the daemon's textual  *)
(*     "GPSD,tag=value,...\r" sentences into the client's session record.  *)
(* and of gpxlogger.c, which writes the fixes of a client as a GPX track   *)
(* log: conditionally_log_fix, print_gpx_footer, quit_handler.             *)
(*                                                                         *)
(* A C "unsigned int" is held as the set of the positions of its 1 bits:   *)
(* TLC's integers stop at 2^31-1, and bit 31 (D29* ) matters to the parity.*)
(***************************************************************************)
EXTENDS Integers, Sequences, FiniteSets, TLC

VARIABLES
    gps_week,       \* session->context->gps_week
    leap_seconds,   \* session->context->leap_seconds
    valid,          \* session->context->valid, as the set of its flags
    entry,          \* which decoder entry point the driver called last
    sent,           \* what the subframe of that call says, as the satellite sent it
    flip,           \* the word and the bit of it that were received wrong, if any
    inwords,        \* the words[] array as the driver passed it in
    words,          \* the same array as the call left it (it is changed in place)
    reports,        \* the gpsd_report() events of the call, in order
    session,        \* the client's struct gps_data_t
    polls,          \* the number of gps_poll() calls that read data so far
    inbuf,          \* the text the last gps_poll() read
    pollbuf,        \* gps_poll's buf[] as gps_unpack left it
    mask,           \* the mask the last gps_poll() returned, as the set of its bits
    hooked,         \* the buffers the raw hook was called with during the last call
    fault,          \* the undefined behaviour the last gps_poll() ran into, if any
    crashed,        \* whether the client process has been killed
    pc,             \* gpxlogger: the line of gpxlogger.c the program is at
    calls,          \* gpxlogger: the calls of conditionally_log_fix so far
    intrack,        \* gpxlogger: static bool intrack
    first,          \* gpxlogger: static bool first of conditionally_log_fix
    int_time,       \* gpxlogger: static time_t int_time
    old_int_time,   \* gpxlogger: static time_t old_int_time
    logfile         \* gpxlogger: what has been written to logfile, element by element

ctxvars == <<gps_week, leap_seconds, valid>>
sfvars == <<gps_week, leap_seconds, valid, entry, sent, flip, inwords, words, reports>>
clientvars == <<session, polls, inbuf, pollbuf, mask, hooked, fault, crashed>>
logvars == <<pc, calls, intrack, first, int_time, old_int_time, logfile>>
vars == <<gps_week, leap_seconds, valid, entry, sent, flip, inwords, words, reports,
          session, polls, inbuf, pollbuf, mask, hooked, fault, crashed,
          pc, calls, intrack, first, int_time, old_int_time, logfile>>

-----------------------------------------------------------------------------
(* 32-bit unsigned arithmetic: an unsigned int is the set of the positions *)
(* of its 1 bits, bit 0 the least significant                                *)

BitIdx == 0..31

\* bit k of the natural number n (n < 2^31)
NatBit(n, k) == (n \div (2 ^ k)) % 2

\* the unsigned int whose upper and lower 16 bits are hi and lo
U32(hi, lo) ==
    {k \in 0..15 : NatBit(lo, k) = 1} \cup {k \in 16..31 : NatBit(hi, k - 16) = 1}

\* the unsigned int of value n (n < 2^31)
ToU32(n) == {k \in 0..30 : NatBit(n, k) = 1}

RECURSIVE NatOf(_, _, _)
\* the value of the n bits of w from bit s upwards: (w >> s) & (2^n - 1)
NatOf(w, s, n) ==
    IF n = 0 THEN 0
    ELSE (IF s \in w THEN 1 ELSE 0) + 2 * NatOf(w, s + 1, n - 1)

\* w >> s
Shr(w, s) == {k - s : k \in {j \in w : j >= s}}

\* a & b, a ^ b
BitAnd(a, b) == a \cap b
BitXor(a, b) == (a \ b) \cup (b \ a)

\* the masks of subframe.c
Mask3fffffc0 == U32(16383, 65472)   \* 0x3fffffc0: the 24 data bits of a raw word
Mask40000000 == U32(16384, 0)       \* 0x40000000: D30*
Mask3f == U32(0, 63)                \* 0x3f: the 6 parity bits
Maskffffff == U32(255, 65535)       \* 0xffffff: a 24-bit data word

\* isgps_parity(): the six parity bits D25..D30 of IS-GPS-200 over the word th,
\* whose bits 31 and 30 hold D29* and D30* and whose bits 29..6 hold the data
\* bits d1..d24; each is the exclusive or of the bits its mask selects; D25 is
\* bit 5 of the result and D30 bit 0.
PARITY_25 == U32(47903, 13440)   \* 0xbb1f3480
PARITY_26 == U32(23951, 39488)   \* 0x5d8f9a40
PARITY_27 == U32(44743, 52480)   \* 0xaec7cd00
PARITY_28 == U32(22371, 59008)   \* 0x5763e680
PARITY_29 == U32(27569, 62272)   \* 0x6bb1f340
PARITY_30 == U32(35706, 35264)   \* 0x8b7a89c0

XorOfBits(w) == Cardinality(w) % 2

isgps_parity(th) ==
    32 * XorOfBits(BitAnd(th, PARITY_25)) + 16 * XorOfBits(BitAnd(th, PARITY_26))
    + 8 * XorOfBits(BitAnd(th, PARITY_27)) + 4 * XorOfBits(BitAnd(th, PARITY_28))
    + 2 * XorOfBits(BitAnd(th, PARITY_29)) + XorOfBits(BitAnd(th, PARITY_30))

-----------------------------------------------------------------------------
(* subframe.c *)

\* timebase.h: the leap-second count current when the program was built
LEAP_SECONDS == 15

\* one gpsd_report() event
Report(lvl, msg, n) == [lvl |-> lvl, msg |-> msg, n |-> n]

Context(week, leap, v) == [gps_week |-> week, leap_seconds |-> leap, valid |-> v]

\* case 1 with the week number taken two bits too high (>> 16)
Subframe1Shift16(ctx, w) ==
    LET wn == NatOf(w[2], 16, 8)
    IN [ctx |-> [ctx EXCEPT !.gps_week = wn],
        reports |-> <<Report("LOG_PROG", "SF:1", wn)>>]

\* case 1 of the switch: the week number of subframe 1
Subframe1(ctx, w) ==
    LET wn == NatOf(w[2], 14, 10)                    \* (words[2] >> 14) & 0x03ff
    IN [ctx |-> [ctx EXCEPT !.gps_week = wn],
        reports |-> <<Report("LOG_PROG", "SF:1", wn)>>]

\* case 4 of the switch, pages 55 and 56; every other page is a no-op
Subframe4(ctx, w, pageid) ==
    IF pageid = 55
    THEN [ctx |-> ctx,
          reports |-> <<Report("LOG_INF", "gps system message", 0)>>]
    ELSE IF pageid = 56
    THEN LET leap == NatOf(BitAnd(w[8], U32(255, 0)), 16, 16)    \* (words[8] & 0xff0000) >> 16
             lsf == NatOf(BitAnd(w[9], U32(255, 0)), 16, 16)     \* (words[9] & 0xff0000) >> 16
         IN IF LEAP_SECONDS > leap
            THEN [ctx |-> [ctx EXCEPT !.leap_seconds = LEAP_SECONDS,
                                      !.valid = @ \ {"LEAP_SECOND_VALID"}],
                  reports |-> <<Report("LOG_ERROR", "Invalid leap_seconds", leap)>>]
            ELSE [ctx |-> [ctx EXCEPT !.leap_seconds = leap,
                                      !.valid = @ \cup {"LEAP_SECOND_VALID"}],
                  reports |-> <<Report("LOG_INF", "leap-seconds", leap)>>
                              \o (IF leap # lsf
                                  THEN <<Report("LOG_PROG", "leap-second change coming", lsf)>>
                                  ELSE <<>>)]
    ELSE [ctx |-> ctx, reports |-> <<>>]

\* gpsd_interpret_subframe(session, svid, words): the context and the words[]
\* array it leaves, and what it reported
gpsd_interpret_subframe(ctx, w) ==
    LET preamble0 == NatOf(w[0], 16, 8)              \* (words[0] >> 16) & 0x0ff
        inverted == preamble0 = 139                  \* 0x8b
        preamble == IF inverted THEN 255 - preamble0 ELSE preamble0   \* preamble ^= 0xff
        ws == IF inverted THEN [w EXCEPT ![0] = BitXor(w[0], Maskffffff)] ELSE w
        called == <<Report("LOG_IO", "gpsd_interpret_subframe", 0)>>
    IN IF preamble # 116                             \* 0x74
       THEN [ctx |-> ctx, words |-> ws,
             reports |-> called \o <<Report("LOG_WARN", "bad preamble", preamble)>>]
       ELSE
       LET subframe == NatOf(ws[1], 2, 3)            \* (words[1] >> 2) & 0x07
           pageid == NatOf(BitAnd(ws[2], U32(63, 0)), 16, 16)   \* (words[2] & 0x3F0000) >> 16
           hdr == called \o <<Report("LOG_PROG", "Subframe", subframe)>>
       IN CASE subframe = 1 ->
                 LET r == Subframe1(ctx, ws)
                 IN [ctx |-> r.ctx, words |-> ws, reports |-> hdr \o r.reports]
            [] subframe = 2 ->
                 [ctx |-> ctx, words |-> ws,
                  reports |-> hdr \o <<Report("LOG_PROG", "SF:2", 0)>>]
            [] subframe = 3 ->
                 [ctx |-> ctx, words |-> ws,
                  reports |-> hdr \o <<Report("LOG_PROG", "SF:3", 0)>>]
            [] subframe = 4 ->
                 LET r == Subframe4(ctx, ws, pageid)
                 IN [ctx |-> r.ctx, words |-> ws,
                     reports |-> hdr \o <<Report("LOG_PROG", "SF:4", pageid)>> \o r.reports]
            [] subframe = 5 ->
                 [ctx |-> ctx, words |-> ws,
                  reports |-> hdr \o <<Report("LOG_PROG", "SF:5", pageid)>>]
            [] OTHER ->
                 [ctx |-> ctx, words |-> ws, reports |-> hdr]

\* what gpsd_interpret_subframe_raw leaves when it has called the decoder
Decoded(called, d) ==
    [ctx |-> d.ctx, words |-> d.words, reports |-> called \o d.reports]

\* the inversion with the mask 0x3fffff00, which misses the two low data bits
InvertHigh(wi) == BitXor(wi, U32(16383, 65280))

\* words[i] ^= 0x3fffffc0: the 24 data bits inverted back
Invert(wi) == BitXor(wi, Mask3fffffc0)

\* the stripping with the mask 0xffff, which keeps 16 data bits only
Strip16(wi) == BitAnd(Shr(wi, 6), U32(0, 65535))

\* (words[i] >> 6) & 0xffffff: the 24 data bits, the parity bits dropped
Strip(wi) == BitAnd(Shr(wi, 6), Maskffffff)

\* the comparison with the mask 0x1f, which leaves D25 unchecked
ParityFails5(wi) == isgps_parity(wi) % 32 # NatOf(BitAnd(wi, U32(0, 31)), 0, 5)

\* parity != (words[i] & 0x3f), with parity = isgps_parity(words[i])
ParityFails(wi) == isgps_parity(wi) # NatOf(BitAnd(wi, Mask3f), 0, 6)

\* the loop of gpsd_interpret_subframe_raw over words 1..9, from word i on:
\* the words[] array it leaves and the word whose parity failed (0: none)
RECURSIVE RawWords(_, _)
RawWords(w, i) ==
    IF i >= 10 THEN [words |-> w, fail |-> 0]
    ELSE LET invert == BitAnd(w[i], Mask40000000) # {}      \* D30* says invert
             wi == IF invert THEN Invert(w[i]) ELSE w[i]
         IN IF ParityFails(wi)
            THEN [words |-> [w EXCEPT ![i] = wi], fail |-> i]
            ELSE RawWords([w EXCEPT ![i] = Strip(wi)], i + 1)

\* the end without the return on a parity failure
AfterWordsNoReturn(ctx, called, r) ==
    Decoded(called, gpsd_interpret_subframe(ctx, r.words))

\* the end of gpsd_interpret_subframe_raw, r being what the loop left: the
\* return on a parity failure, or else the call of gpsd_interpret_subframe
AfterWords(ctx, called, r) ==
    IF r.fail # 0
    THEN [ctx |-> ctx, words |-> r.words,
          reports |-> called \o <<Report("LOG_IO", "parity fail words", r.fail)>>]
    ELSE Decoded(called, gpsd_interpret_subframe(ctx, r.words))

\* gpsd_interpret_subframe_raw(session, svid, words)
gpsd_interpret_subframe_raw(ctx, w) ==
    LET preamble == NatOf(w[0], 22, 8)               \* (words[0] >> 22) & 0xff
        called == <<Report("LOG_IO", "gpsd_interpret_subframe_raw", 0)>>
    IN IF preamble # 139 /\ preamble # 116           \* neither 0x8b nor 0x74
       THEN [ctx |-> ctx, words |-> w,
             reports |-> called \o <<Report("LOG_IO", "raw bad preamble", preamble)>>]
       ELSE AfterWords(ctx, called,
                RawWords([w EXCEPT ![0] = Strip(IF preamble = 139 THEN Invert(w[0])
                                                ELSE w[0])], 1))

-----------------------------------------------------------------------------
(* libgps.c: C strings.  A buffer is a sequence of characters that holds a   *)
(* NUL; a pointer into it is an index; 0 is the null pointer.                *)

NUL == ""
CR == "\r"
GPSD == <<"G", "P", "S", "D">>

\* the first position from s on that holds one of the characters stops; the
\* string at s ends in a NUL, which is one of them
FirstOf(buf, s, stops) ==
    LET at == {i \in s..Len(buf) : buf[i] \in stops}
    IN CHOOSE i \in at : \A k \in at : i <= k

\* strchr(s, c) for a character c other than NUL
strchr(buf, s, c) ==
    LET i == FirstOf(buf, s, {c, NUL})
    IN IF buf[i] = c THEN i ELSE 0

\* strncmp(s, pat, Len(pat)) == 0
RECURSIVE StartsWith(_, _, _)
StartsWith(buf, s, pat) ==
    \/ pat = <<>>
    \/ /\ buf[s] = Head(pat)
       /\ StartsWith(buf, s + 1, Tail(pat))

\* strstr(s, pat)
strstr(buf, s, pat) ==
    LET at == {i \in s..(FirstOf(buf, s, {NUL}) - 1) : StartsWith(buf, i, pat)}
    IN IF at = {} THEN 0 ELSE CHOOSE i \in at : \A k \in at : i <= k

\* the string at s: the characters up to the next NUL
CString(buf, s) == SubSeq(buf, s, FirstOf(buf, s, {NUL}) - 1)

(* A double is held as a decimal fraction m / 10^e with no trailing zero in  *)
(* m when e > 0, so that equal values are equal records.                     *)
RECURSIVE Dec(_, _)
Dec(m, e) ==
    IF e > 0 /\ m % 10 = 0 THEN Dec(m \div 10, e - 1) ELSE [m |-> m, e |-> e]

\* a - b
DecSub(a, b) ==
    LET e == IF a.e > b.e THEN a.e ELSE b.e
    IN Dec(a.m * 10 ^ (e - a.e) - b.m * 10 ^ (e - b.e), e)

isspace(c) == c \in {" ", "\t", "\n", "\r", "\f"}
isdigit(c) == c \in {"0", "1", "2", "3", "4", "5", "6", "7", "8", "9"}

DigitValue(c) ==
    CASE c = "0" -> 0 [] c = "1" -> 1 [] c = "2" -> 2 [] c = "3" -> 3
      [] c = "4" -> 4 [] c = "5" -> 5 [] c = "6" -> 6 [] c = "7" -> 7
      [] c = "8" -> 8 [] c = "9" -> 9

\* the first position from p on that holds no white space
RECURSIVE SkipSpace(_, _)
SkipSpace(str, p) ==
    IF p <= Len(str) /\ isspace(str[p]) THEN SkipSpace(str, p + 1) ELSE p

\* the digits from p on: their value, their number, the position after them
RECURSIVE ScanDigits(_, _, _, _)
ScanDigits(str, p, val, cnt) ==
    IF p <= Len(str) /\ isdigit(str[p])
    THEN ScanDigits(str, p + 1, 10 * val + DigitValue(str[p]), cnt + 1)
    ELSE [val |-> val, cnt |-> cnt, p |-> p]

\* an optional sign at p: its factor and the position after it
ScanSign(str, p) ==
    IF p <= Len(str) /\ str[p] = "-" THEN [f |-> -1, p |-> p + 1]
    ELSE IF p <= Len(str) /\ str[p] = "+" THEN [f |-> 1, p |-> p + 1]
    ELSE [f |-> 1, p |-> p]

\* the conversion %d at p: white space, a sign, digits
ScanInt(str, p) ==
    LET s == ScanSign(str, SkipSpace(str, p))
        d == ScanDigits(str, s.p, 0, 0)
    IN IF d.cnt = 0 THEN [ok |-> FALSE, val |-> 0, p |-> p]
       ELSE [ok |-> TRUE, val |-> s.f * d.val, p |-> d.p]

\* the conversion %lf at p: white space, a sign, digits with an optional
\* fraction (the texts of the model hold no exponent, infinity or NaN)
ScanDouble(str, p) ==
    LET s == ScanSign(str, SkipSpace(str, p))
        int == ScanDigits(str, s.p, 0, 0)
        dot == int.p <= Len(str) /\ str[int.p] = "."
        frac == IF dot THEN ScanDigits(str, int.p + 1, 0, 0)
                ELSE [val |-> 0, cnt |-> 0, p |-> int.p]
    IN IF int.cnt + frac.cnt = 0 THEN [ok |-> FALSE, val |-> Dec(0, 0), p |-> p]
       ELSE [ok |-> TRUE,
             val |-> Dec(s.f * (int.val * 10 ^ frac.cnt + frac.val), frac.cnt),
             p |-> frac.p]

\* the first position from p on that holds white space, or the end
RECURSIVE SkipWord(_, _)
SkipWord(str, p) ==
    IF p <= Len(str) /\ ~isspace(str[p]) THEN SkipWord(str, p + 1) ELSE p

\* the conversion %s at p: white space, then the characters up to white space
ScanString(str, p) ==
    LET b == SkipSpace(str, p)
        e == SkipWord(str, b)
    IN IF e = b THEN [ok |-> FALSE, val |-> <<>>, p |-> p]
       ELSE [ok |-> TRUE, val |-> SubSeq(str, b, e - 1), p |-> e]

\* sscanf from position p on under the directives fmt: the values assigned so
\* far are out; the scan ends at the first directive that does not match
RECURSIVE ScanFmt(_, _, _, _)
ScanFmt(str, p, fmt, out) ==
    IF fmt = <<>> THEN out
    ELSE LET d == Head(fmt)
             r == CASE d \in {"%d", "%*d"} -> ScanInt(str, p)
                    [] d = "%lf" -> ScanDouble(str, p)
                    [] d \in {"%s", "%*s"} -> ScanString(str, p)
                    [] d = " " -> [ok |-> TRUE, val |-> 0, p |-> SkipSpace(str, p)]
                    [] OTHER -> [ok |-> p <= Len(str) /\ str[p] = d, val |-> 0, p |-> p + 1]
         IN IF ~r.ok THEN out
            ELSE ScanFmt(str, r.p, Tail(fmt),
                         IF d \in {"%d", "%lf", "%s"} THEN Append(out, r.val) ELSE out)

\* sscanf(str, fmt, ...): the values of the conversions that were assigned
sscanf(str, fmt) == ScanFmt(str, 1, fmt, <<>>)

\* atoi(str)
atoi(str) == ScanInt(str, 1).val

\* the session with the values vals stored in the fields named by fields, the
\* i-th value in the i-th field; a field with no value keeps its own
Store(g, fields, vals) ==
    [f \in DOMAIN g |->
        IF \E i \in 1..Len(vals) : fields[i] = f
        THEN vals[CHOOSE i \in 1..Len(vals) : fields[i] = f]
        ELSE g[f]]

-----------------------------------------------------------------------------
(* libgps.c: the session (struct gps_data_t) and gps_unpack *)

\* gps.h
ALTITUDE_NOT_VALID == Dec(-999, 0)
TRACK_NOT_VALID == Dec(-1, 0)
MAXCHANNELS == 12

\* an int array[MAXCHANNELS] with every entry v
Channels(v) == [j \in 0..(MAXCHANNELS - 1) |-> v]

\* gps_open(): the session after calloc() and the four assignments; the
\* fields of gpsdata->fix are held beside the others, gps_id is <<>> for a
\* null pointer and <<string>> otherwise
gps_open ==
    [PRN |-> Channels(0), elevation |-> Channels(0), azimuth |-> Channels(0),
     ss |-> Channels(0), used |-> Channels(0),
     altitude |-> ALTITUDE_NOT_VALID, latitude |-> Dec(0, 0), longitude |-> Dec(0, 0),
     mode |-> 0, track |-> TRACK_NOT_VALID, speed |-> Dec(0, 0), climb |-> Dec(0, 0),
     time |-> Dec(0, 0), eph |-> Dec(0, 0), epv |-> Dec(0, 0), epe |-> Dec(0, 0),
     status |-> 0, baudrate |-> 0, stopbits |-> 0, cycle |-> 0, utc |-> <<>>,
     gps_id |-> <<>>, driver_mode |-> 0, satellites_used |-> 0,
     pdop |-> Dec(0, 0), hdop |-> Dec(0, 0), vdop |-> Dec(0, 0),
     satellites |-> 0, profiling |-> 0, tag |-> <<>>, sentence_length |-> 0,
     d_xmit_time |-> Dec(0, 0), d_recv_time |-> Dec(0, 0), d_decode_time |-> Dec(0, 0),
     poll_time |-> Dec(0, 0), emit_time |-> Dec(0, 0), online |-> Dec(0, 0),
     c_decode_time |-> Dec(0, 0), c_recv_time |-> Dec(0, 0), raw_hook |-> FALSE]

\* the cases of the switch on *sp: the session after the case and the bits it
\* ors into changed
CaseA(g, buf, sp) ==
    [g |-> Store(g, <<"altitude">>, sscanf(CString(buf, sp), <<"A", "=", "%lf">>)),
     bits |-> {"ALTITUDE_SET"}]

CaseB(g, buf, sp) ==
    [g |-> Store(g, <<"baudrate", "stopbits">>,
                 sscanf(CString(buf, sp), <<"B", "=", "%d", " ", "%*d", " ", "%*s", " ", "%d">>)),
     bits |-> {}]

CaseC(g, buf, sp) ==
    [g |-> Store(g, <<"cycle">>, sscanf(CString(buf, sp), <<"C", "=", "%d">>)),
     bits |-> {}]

CaseD(g, buf, sp) ==
    [g |-> [g EXCEPT !.utc = CString(buf, sp + 2)], bits |-> {}]

CaseE(g, buf, sp) ==
    [g |-> Store(g, <<"epe", "eph", "epv">>,
                 sscanf(CString(buf, sp), <<"E", "=", "%lf", " ", "%lf", " ", "%lf">>)),
     bits |-> {"POSERR_SET"}]

CaseM(g, buf, sp) ==
    [g |-> [g EXCEPT !.mode = atoi(CString(buf, sp + 2))], bits |-> {"MODE_SET"}]

\* case 'I' has no break: it runs into case 'M'
CaseI(g, buf, sp) ==
    CaseM([g EXCEPT !.gps_id = <<CString(buf, sp + 2)>>], buf, sp)

CaseN(g, buf, sp) ==
    [g |-> [g EXCEPT !.driver_mode = atoi(CString(buf, sp + 2))], bits |-> {}]

\* case 'P' with the two destinations exchanged
CasePSwapped(g, buf, sp) ==
    [g |-> Store(g, <<"longitude", "latitude">>,
                 sscanf(CString(buf, sp), <<"P", "=", "%lf", " ", "%lf">>)),
     bits |-> {"LATLON_SET"}]

CaseP(g, buf, sp) ==
    [g |-> Store(g, <<"latitude", "longitude">>,
                 sscanf(CString(buf, sp), <<"P", "=", "%lf", " ", "%lf">>)),
     bits |-> {"LATLON_SET"}]

CaseQ(g, buf, sp) ==
    [g |-> Store(g, <<"satellites_used", "pdop", "hdop", "vdop">>,
                 sscanf(CString(buf, sp),
                        <<"Q", "=", "%d", " ", "%lf", " ", "%lf", " ", "%lf">>)),
     bits |-> {"DOP_SET"}]

CaseS(g, buf, sp) ==
    [g |-> [g EXCEPT !.status = atoi(CString(buf, sp + 2))], bits |-> {"STATUS_SET"}]

CaseT(g, buf, sp) ==
    [g |-> Store(g, <<"track">>, sscanf(CString(buf, sp), <<"T", "=", "%lf">>)),
     bits |-> {"TRACK_SET"}]

CaseU(g, buf, sp) ==
    [g |-> Store(g, <<"climb">>, sscanf(CString(buf, sp), <<"U", "=", "%lf">>)),
     bits |-> {"CLIMB_SET"}]

CaseV(g, buf, sp) ==
    [g |-> Store(g, <<"speed">>, sscanf(CString(buf, sp), <<"V", "=", "%lf">>)),
     bits |-> {"SPEED_SET"}]

\* case 'X' scans with the format of case 'V'
CaseX(g, buf, sp) ==
    [g |-> Store(g, <<"speed">>, sscanf(CString(buf, sp), <<"V", "=", "%lf">>)),
     bits |-> {"ONLINE_SET"}]

\* the five local arrays of case 'Y', in the order PRN, elevation, azimuth,
\* ss, used, as the stack holds them when the block is entered: junk
YLocals(junk) == [a \in 1..5 |-> Channels(junk)]

\* the first loop of case 'Y' from entry j on: entries 0..n-1 are set to 0;
\* an entry past the end of the arrays is a write outside them
RECURSIVE YZero(_, _, _)
YZero(loc, n, j) ==
    IF j >= n \/ j >= MAXCHANNELS THEN loc
    ELSE YZero([a \in 1..5 |-> [loc[a] EXCEPT ![j] = 0]], n, j + 1)

\* PRN[j] = i1; elevation[j] = i2; azimuth[j] = i3; ss[j] = i4; used[j] = i5
YAssign(loc, j, is) ==
    IF j >= MAXCHANNELS THEN loc
    ELSE [a \in 1..5 |-> [loc[a] EXCEPT ![j] = is[a]]]

\* i1..i5 after sscanf() has assigned vals to the first of them
YScanned(is, vals) ==
    [a \in 1..5 |-> IF a <= Len(vals) THEN vals[a] ELSE is[a]]

\* the second loop of case 'Y' from entry j on, with sp where the last pass
\* left it and is the values of i1..i5: the local arrays it leaves, and
\* "null pointer" when strchr() found no ':' (sscanf then reads address 1)
RECURSIVE YGroups(_, _, _, _, _, _)
\* the rest of one pass, is being i1..i5 after the sscanf() of the pass
YStore(buf, sp, n, j, is, loc) ==
    YGroups(buf, sp, n, j + 1, is, YAssign(loc, j, is))

\* one pass, colon being what strchr(sp, ':') returned
YGroup(buf, colon, n, j, is, loc) ==
    IF colon = 0 THEN [loc |-> loc, fault |-> "null pointer"]
    ELSE YStore(buf, colon + 1, n, j,
                YScanned(is, sscanf(CString(buf, colon + 1),
                                    <<"%d", " ", "%d", " ", "%d", " ", "%d", " ", "%d">>)),
                loc)

YGroups(buf, sp, n, j, is, loc) ==
    IF j >= n THEN [loc |-> loc, fault |-> ""]
    ELSE YGroup(buf, strchr(buf, sp, ":"), n, j, is, loc)

\* the five memcpy() of case 'Y': whole arrays; "overflow" when the first
\* loop wrote past the end of the local arrays
YCopy(g, r) ==
    [g |-> [g EXCEPT !.PRN = r.loc[1], !.elevation = r.loc[2], !.azimuth = r.loc[3],
                     !.ss = r.loc[4], !.used = r.loc[5]],
     bits |-> {"SATELLITE_SET"},
     fault |-> IF g.satellites > MAXCHANNELS THEN "overflow" ELSE r.fault]

\* case 'Y' after gpsdata->satellites = atoi(sp+2), n being that count
YBlock(g, buf, sp, junk, n) ==
    IF n = 0
    THEN [g |-> [g EXCEPT !.satellites = 0], bits |-> {"SATELLITE_SET"}, fault |-> ""]
    ELSE YCopy([g EXCEPT !.satellites = n],
               YGroups(buf, sp, n, 0, [a \in 1..5 |-> junk], YZero(YLocals(junk), n, 0)))

\* case 'Y', junk being what the stack holds where the locals of the block lie
CaseY(g, buf, sp, junk) == YBlock(g, buf, sp, junk, atoi(CString(buf, sp + 2)))

CaseZ(g, buf, sp) ==
    [g |-> Store(g, <<"profiling">>, sscanf(CString(buf, sp), <<"Z", "=", "%d">>)),
     bits |-> {}]

CaseDollar(g, buf, sp) ==
    [g |-> Store(g, <<"tag", "sentence_length", "time", "d_xmit_time", "d_recv_time",
                      "d_decode_time", "poll_time", "emit_time">>,
                 sscanf(CString(buf, sp),
                        <<"$", "=", "%s", " ", "%d", " ", "%lf", " ", "%lf", " ", "%lf",
                          " ", "%lf", " ", "%lf", " ", "%lf">>)),
     bits |-> {}]

\* switch (*sp)
Switch(g, buf, sp, junk) ==
    CASE buf[sp] = "A" -> CaseA(g, buf, sp)
      [] buf[sp] = "B" -> CaseB(g, buf, sp)
      [] buf[sp] = "C" -> CaseC(g, buf, sp)
      [] buf[sp] = "D" -> CaseD(g, buf, sp)
      [] buf[sp] = "E" -> CaseE(g, buf, sp)
      [] buf[sp] = "I" -> CaseI(g, buf, sp)
      [] buf[sp] = "M" -> CaseM(g, buf, sp)
      [] buf[sp] = "N" -> CaseN(g, buf, sp)
      [] buf[sp] = "P" -> CaseP(g, buf, sp)
      [] buf[sp] = "Q" -> CaseQ(g, buf, sp)
      [] buf[sp] = "S" -> CaseS(g, buf, sp)
      [] buf[sp] = "T" -> CaseT(g, buf, sp)
      [] buf[sp] = "U" -> CaseU(g, buf, sp)
      [] buf[sp] = "V" -> CaseV(g, buf, sp)
      [] buf[sp] = "X" -> CaseX(g, buf, sp)
      [] buf[sp] = "Y" -> CaseY(g, buf, sp, junk)
      [] buf[sp] = "Z" -> CaseZ(g, buf, sp)
      [] buf[sp] = "$" -> CaseDollar(g, buf, sp)
      [] OTHER -> [g |-> g, bits |-> {}]

\* the end of the fragment at sp: the next ',' or, when the rest of the
\* string holds none, the next '\r'; 0 when it holds neither
FragmentEnd(buf, sp) ==
    LET tp == strchr(buf, sp, ",")
    IN IF tp # 0 THEN tp ELSE strchr(buf, sp, CR)

\* what a case leaves: its session, its bits ored into changed, and the fault
\* of case 'Y' when it has one
AfterCase(st, cut, c) ==
    [g |-> c.g, changed |-> st.changed \cup c.bits, buf |-> cut, junk |-> st.junk,
     fault |-> IF "fault" \in DOMAIN c /\ st.fault = "" THEN c.fault ELSE st.fault]

\* the body of the inner loop without the '?' test
LoopBodyNoSkip(st, sp, tp) ==
    LET cut == [st.buf EXCEPT ![tp] = NUL]
    IN AfterCase(st, cut, Switch(st.g, cut, sp, st.junk))

\* the body of the inner loop for the fragment from sp to tp, on the session,
\* mask and buffer st: *tp = '\0', then the '?' test and the switch
LoopBody(st, sp, tp) ==
    LET cut == [st.buf EXCEPT ![tp] = NUL]
    IN IF cut[sp + 2] = "?"
       THEN [st EXCEPT !.buf = cut]
       ELSE AfterCase(st, cut, Switch(st.g, cut, sp, st.junk))

\* the inner loop of gps_unpack, from the fragment at sp on
RECURSIVE Fragments(_, _)
Fragments(st, sp) ==
    LET tp == FragmentEnd(st.buf, sp)
    IN IF tp = 0 THEN st ELSE Fragments(LoopBody(st, sp, tp), tp + 1)

\* the body of the outer loop at ns
AtMarker(st, ns) ==
    IF StartsWith(st.buf, ns, GPSD) THEN Fragments(st, ns + 5) ELSE st

\* the outer loop of gps_unpack, from ns on
RECURSIVE Sentences(_, _)
NextMarker(st, ns) ==
    LET next == strstr(st.buf, ns + 1, GPSD)
    IN IF next = 0 THEN st ELSE Sentences(st, next)

Sentences(st, ns) == NextMarker(AtMarker(st, ns), ns)

\* the end of gps_unpack: the raw hook, if any, is called with buf
RawHook(st) ==
    [g |-> st.g, buf |-> st.buf, changed |-> st.changed, fault |-> st.fault,
     hooked |-> IF st.g.raw_hook THEN <<st.buf>> ELSE <<>>]

\* gps_unpack(buf, gpsdata): the session and the buffer it leaves, the mask
\* it returns, the buffers the raw hook was called with, and the undefined
\* behaviour it ran into; junk is what the stack holds when it is called
gps_unpack(g, buf, junk) ==
    RawHook(Sentences([g |-> g, changed |-> {}, buf |-> buf, junk |-> junk,
                       fault |-> ""], 1))

\* the end of gps_poll: the two client-side times, while profiling is on
Profile(r, received, now) ==
    IF r.g.profiling # 0
    THEN [r EXCEPT !.g.c_decode_time = DecSub(received, r.g.time),
                   !.g.c_recv_time = DecSub(now, r.g.time)]
    ELSE r

\* gps_poll(gpsdata) when read() returns the n > 0 characters text, with the
\* clock reading `received` before the unpacking and `now` after it
gps_poll(g, text, received, now, junk) ==
    Profile(gps_unpack(g, text \o <<NUL>>, junk), received, now)

-----------------------------------------------------------------------------
(* The driver: the subframes a receiver hands to the decoder *)

\* how far around LEAP_SECONDS the broadcast leap-second field ranges
LeapSpan == 1

LeapVals == (LEAP_SECONDS - LeapSpan)..(LEAP_SECONDS + LeapSpan)
WeekVals == {0, 256, 341, 1023}
PageVals == {18, 25, 55, 56}

\* what a subframe says: the preamble sent, the subframe id, and the fields
\* the decoder stores
Message(pre, sf, page, wn, leap, lsf) ==
    [pre |-> pre, sf |-> sf, page |-> page, wn |-> wn, leap |-> leap, lsf |-> lsf]

\* no subframe, and no bit received wrong
NoMessage == Message(0, 0, 0, 0, 0, 0)
NoFlip == <<0, 0>>

Messages ==
    {Message(116, 1, 0, wn, 0, 0) : wn \in WeekVals}
    \cup {Message(116, 4, 56, 0, leap, lsf) :
             leap \in LeapVals, lsf \in {LEAP_SECONDS, LEAP_SECONDS + 1}}
    \cup {Message(116, 4, page, 0, 0, 0) : page \in PageVals \ {56}}
    \cup {Message(116, sf, 3, 0, 0, 0) : sf \in {0, 2, 3, 5, 6, 7}}
    \cup {Message(117, sf, 56, 1023, LEAP_SECONDS + 1, LEAP_SECONDS + 1) : sf \in {1, 4}}

\* the ten 24-bit data words of a message: the preamble and TLM message in
\* word 0, the subframe id in the HOW (word 1), then either the week number
\* (subframe 1) or the data id and page id (others) in word 2, and the
\* leap-second fields of page 18 of subframe 4 in words 8 and 9
DataWords(m) ==
    [i \in 0..9 |->
        CASE i = 0 -> m.pre * 65536 + 4660
          [] i = 1 -> 77 * 128 + m.sf * 4
          [] i = 2 -> IF m.sf = 1 THEN m.wn * 16384 + 5 * 256
                      ELSE 4194304 + m.page * 65536 + 21845
          [] i = 8 -> m.leap * 65536 + 137 * 256 + 7
          [] i = 9 -> m.lsf * 65536
          [] OTHER -> 1193046 + i]

\* a raw word from its parts: bits 31..30, the 24 data bits, the 6 parity bits
RawWord(top, data, par) ==
    {k \in BitIdx : IF k < 6 THEN NatBit(par, k) = 1
                    ELSE IF k < 30 THEN NatBit(data, k - 6) = 1
                    ELSE NatBit(top, k - 30) = 1}

\* the word a satellite sends for the data bits `data` after a word that ended
\* in D29* = d29 and D30* = d30: the parity of the source bits, and the data
\* bits complemented when D30* is 1; `top` is what the chipset leaves in bits
\* 31..30
Transmit(d29, d30, top, data) ==
    RawWord(top, IF d30 = 1 THEN 16777215 - data ELSE data,
            isgps_parity(RawWord(2 * d29 + d30, data, 0)))

\* the raw words i..9 of a subframe whose data words are `data`, after the
\* words `out`: each word after the first carries the last two parity bits of
\* the word before it in its bits 31..30
RECURSIVE SendFrom(_, _, _)
SendFrom(data, out, i) ==
    IF i > 9 THEN out
    ELSE LET d29 == NatOf(out[i - 1], 1, 1)
             d30 == NatOf(out[i - 1], 0, 1)
         IN SendFrom(data,
                     out @@ (i :> Transmit(d29, d30, 2 * d29 + d30, data[i])),
                     i + 1)

\* the ten raw words of a subframe out after a word that ended in d29, d30
RawSubframe(m, d29, d30) ==
    LET data == DataWords(m)
    IN SendFrom(data, (0 :> Transmit(d29, d30, 0, data[0])), 1)

\* bit k of word i received wrong
FlipBit(w, i, k) == [w EXCEPT ![i] = BitXor(@, {k})]

\* the subframe of a chipset that strips parity itself: ten 24-bit words, the
\* first one possibly still inverted
DataSubframe(m, inv) ==
    LET data == DataWords(m)
    IN [i \in 0..9 |-> ToU32(IF i = 0 /\ inv = 1 THEN 16777215 - data[0] ELSE data[i])]

-----------------------------------------------------------------------------
(* The daemon: the texts a client reads *)

\* the fragments of one sentence at most, and the calls of one client
MaxFrags == 2
MaxPolls == 2

\* a number as the daemon prints it, and its value
Numeral(text, val) == [text |-> text, val |-> val]
N37_1 == Numeral(<<"3", "7", ".", "1">>, Dec(371, 1))
N122_3 == Numeral(<<"-", "1", "2", "2", ".", "3">>, Dec(-1223, 1))
N1_0 == Numeral(<<"1", ".", "0">>, Dec(1, 0))
N2_0 == Numeral(<<"2", ".", "0">>, Dec(2, 0))

Positions == {<<N37_1, N122_3>>, <<N1_0, N2_0>>}

PFragment(lat, lon) == <<"P", "=">> \o lat.text \o <<" ">> \o lon.text
SFragment == <<"S", "=", "1">>
MFragment == <<"M", "=", "3">>
DFragment == <<"D", "=", "9", "Z">>

ClientFragments ==
    {PFragment(p[1], p[2]) : p \in Positions} \cup {SFragment, MFragment, DFragment}

\* the fragments fs joined by commas
RECURSIVE Join(_)
Join(fs) ==
    IF Len(fs) = 1 THEN fs[1] ELSE fs[1] \o <<",">> \o Join(Tail(fs))

\* one sentence: the marker, the fragments, a carriage return
Sentence(fs) == GPSD \o <<",">> \o Join(fs) \o <<CR>>

SentenceSet(n) == {Sentence(fs) : fs \in [1..n -> ClientFragments]}

ClientSentences == UNION {SentenceSet(n) : n \in 1..MaxFrags}

\* what one read() returns: one sentence, or two short ones at once
ClientTexts ==
    ClientSentences \cup {s \o t : s \in SentenceSet(1), t \in SentenceSet(1)}

\* a satellite table as the daemon prints it after "Y=", and its groups
SatTable(text, groups) == [text |-> text, groups |-> groups]
Table1 ==
    SatTable(
        <<"1", ":", "5", " ", "1", "5", " ", "2", "5", " ", "3", "5", " ",
          "1", ":">>,
        <<<<5, 15, 25, 35, 1>>>>)
Table2 ==
    SatTable(
        <<"2", ":", "3", " ", "1", "0", " ", "2", "0", " ", "3", "0", " ",
          "1", ":", "7", " ", "4", "0", " ", "5", "0", " ", "6", "0", " ",
          "0", ":">>,
        <<<<3, 10, 20, 30, 1>>, <<7, 40, 50, 60, 0>>>>)
Tables == {Table1, Table2}

YFragment(table) == <<"Y", "=">> \o table.text
\* no satellite in view
YFragment0 == <<"Y", "=", "0">>
\* a group that is no number after its first field
YFragmentBad ==
    <<"Y", "=", "1", ":", "5", " ", "x", ":">>
\* a count with no group behind it
YFragmentBare == <<"Y", "=", "2", ":">>
\* a count below zero
YFragmentNegative == <<"Y", "=", "-", "1">>
\* thirteen groups, one more than MAXCHANNELS
YFragmentOver ==
    <<"Y", "=", "1", "3", ":", "1", " ", "2", " ", "3", " ", "4", " ", "5",
      ":", "2", " ", "2", " ", "3", " ", "4", " ", "5", ":", "3", " ", "2",
      " ", "3", " ", "4", " ", "5", ":", "4", " ", "2", " ", "3", " ", "4",
      " ", "5", ":", "5", " ", "2", " ", "3", " ", "4", " ", "5", ":", "6",
      " ", "2", " ", "3", " ", "4", " ", "5", ":", "7", " ", "2", " ", "3",
      " ", "4", " ", "5", ":", "8", " ", "2", " ", "3", " ", "4", " ", "5",
      ":", "9", " ", "2", " ", "3", " ", "4", " ", "5", ":", "1", "0", " ",
      "2", " ", "3", " ", "4", " ", "5", ":", "1", "1", " ", "2", " ", "3",
      " ", "4", " ", "5", ":", "1", "2", " ", "2", " ", "3", " ", "4", " ",
      "5", ":", "1", "3", " ", "2", " ", "3", " ", "4", " ", "5", ":">>

SatFragments ==
    {YFragment(t) : t \in Tables}
    \cup {YFragment0, YFragmentBad, YFragmentBare, YFragmentNegative, YFragmentOver}

\* a satellite table alone, or with the status behind it
SatTexts ==
    {Sentence(<<f>>) : f \in SatFragments}
    \cup {Sentence(<<f, SFragment>>) : f \in SatFragments}

\* fragments of single tags: a value, a value that is no number, and the
\* placeholder of a receiver that does not have the field
AFragment == <<"A", "=">> \o N37_1.text
AFragmentBad == <<"A", "=", "x">>
SFragmentBad == <<"S", "=", "x">>
Malformed == {AFragmentBad, SFragmentBad}
Placeholders == {<<"A", "=", "?">>, <<"S", "=", "?">>}
IFragment == <<"I", "=", "G", "P", "S">>
XFragment == <<"X", "=">> \o N1_0.text
VFragment == <<"V", "=">> \o N2_0.text

\* the fragments that assign one field: the field, its value and its bit
Assigning ==
    <<[text |-> AFragment, field |-> "altitude", val |-> N37_1.val, bit |-> "ALTITUDE_SET"],
     [text |-> SFragment, field |-> "status", val |-> 1, bit |-> "STATUS_SET"],
     [text |-> MFragment, field |-> "mode", val |-> 3, bit |-> "MODE_SET"],
     [text |-> VFragment, field |-> "speed", val |-> N2_0.val, bit |-> "SPEED_SET"]>>
AssigningFragments == {Assigning[i].text : i \in DOMAIN Assigning}

\* a single fragment; a malformed one or a placeholder with a fragment behind
\* it, in the same sentence or in the next
TagTexts ==
    {Sentence(<<f>>) : f \in AssigningFragments \cup Malformed \cup Placeholders
                                 \cup {IFragment, XFragment}}
    \cup {Sentence(<<q, f>>) : q \in Malformed \cup Placeholders, f \in AssigningFragments}
    \cup {Sentence(<<q>>) \o Sentence(<<SFragment>>) : q \in Malformed \cup Placeholders}

\* timestamp()
FirstTimestamp == Dec(1000, 0)
Timestamps == {FirstTimestamp, Dec(10015, 1)}

-----------------------------------------------------------------------------
(* The state machine of the subframe decoder *)

SubframeInit ==
    /\ gps_week = 0
    /\ leap_seconds = LEAP_SECONDS
    /\ valid = {}
    /\ entry = "idle"
    /\ sent = NoMessage
    /\ flip = NoFlip
    /\ inwords = <<>>
    /\ words = <<>>
    /\ reports = <<>>

ClientInit ==
    /\ session = gps_open
    /\ polls = 0
    /\ inbuf = <<>>
    /\ pollbuf = <<>>
    /\ mask = {}
    /\ hooked = <<>>
    /\ fault = ""
    /\ crashed = FALSE

\* the call returns to the driver
Returned(name, m, f, w, r) ==
    /\ UNCHANGED clientvars
    /\ UNCHANGED logvars
    /\ sent' = m
    /\ flip' = f
    /\ gps_week' = r.ctx.gps_week
    /\ leap_seconds' = r.ctx.leap_seconds
    /\ valid' = r.ctx.valid
    /\ entry' = name
    /\ inwords' = w
    /\ words' = r.words
    /\ reports' = r.reports

\* the driver calls gpsd_interpret_subframe_raw on a subframe as received
RawCall ==
    /\ entry = "idle"
    /\ \E m \in Messages, pol \in {<<0, 0>>, <<1, 1>>} :
          LET w == RawSubframe(m, pol[1], pol[2])
          IN Returned("raw", m, NoFlip, w,
                 gpsd_interpret_subframe_raw(Context(gps_week, leap_seconds, valid), w))

\* the same with one parity bit of one of words 1..9 received wrong
RawCallCorrupt ==
    /\ entry = "idle"
    /\ \E m \in Messages, pol \in {<<0, 0>>, <<1, 1>>}, i \in 1..9, k \in 0..5 :
          LET w == FlipBit(RawSubframe(m, pol[1], pol[2]), i, k)
          IN Returned("raw", m, <<i, k>>, w,
                 gpsd_interpret_subframe_raw(Context(gps_week, leap_seconds, valid), w))

\* a driver whose chipset emits data words calls gpsd_interpret_subframe
DirectCall ==
    /\ entry = "idle"
    /\ \E m \in Messages, inv \in {0, 1} :
          LET w == DataSubframe(m, inv)
          IN Returned("direct", m, NoFlip, w,
                 gpsd_interpret_subframe(Context(gps_week, leap_seconds, valid), w))

\* the call is over: the driver drops the subframe and waits for the next
NextSubframe ==
    /\ entry # "idle"
    /\ entry' = "idle"
    /\ sent' = NoMessage
    /\ flip' = NoFlip
    /\ inwords' = <<>>
    /\ words' = <<>>
    /\ reports' = <<>>
    /\ UNCHANGED ctxvars
    /\ UNCHANGED clientvars
    /\ UNCHANGED logvars

\* gpxlogger before the first fix: the statics as they are initialised
\* (intrack line 39, first line 134, the two times zero), nothing written
LogInit ==
    /\ pc = "main"
    /\ calls = 0
    /\ intrack = FALSE
    /\ first = TRUE
    /\ int_time = 0
    /\ old_int_time = 0
    /\ logfile = <<>>

Init == SubframeInit /\ ClientInit /\ LogInit

Next == RawCall \/ RawCallCorrupt \/ DirectCall \/ NextSubframe

Spec == Init /\ [][Next]_vars

-----------------------------------------------------------------------------
(* The state machine of the client library *)

\* what the stack may hold where the locals of case 'Y' lie; only a text
\* that holds a 'Y' reads it
JunkVals == {0, 170}
JunkFor(text) ==
    IF \E i \in 1..Len(text) : text[i] = "Y" THEN JunkVals ELSE {0}

\* gps_poll() returns to the client, or the process is killed inside it: a
\* null pointer read kills it, a write past the arrays may or may not
Polled(text, received, now, killed, r) ==
    /\ session.profiling = 0 => received = FirstTimestamp
    /\ r.g.profiling = 0 => now = FirstTimestamp
    /\ IF r.fault = "overflow" THEN TRUE ELSE killed = (r.fault = "null pointer")
    /\ session' = IF killed THEN session ELSE r.g
    /\ polls' = polls + 1
    /\ inbuf' = text
    /\ pollbuf' = r.buf
    /\ mask' = IF killed THEN {} ELSE r.changed
    /\ hooked' = IF killed THEN <<>> ELSE r.hooked
    /\ fault' = r.fault
    /\ crashed' = killed

\* the client calls gps_poll() and read() returns one of texts; timestamp() is
\* called, before and after the unpacking, only while profiling is on
PollOf(texts) ==
    /\ ~crashed
    /\ polls < MaxPolls
    /\ \E text \in texts, received \in Timestamps, now \in Timestamps,
          killed \in BOOLEAN :
          \E junk \in JunkFor(text) :
             Polled(text, received, now, killed,
                    gps_poll(session, text,
                             IF session.profiling # 0 THEN received ELSE Dec(0, 0),
                             now, junk))
    /\ UNCHANGED sfvars
    /\ UNCHANGED logvars

Poll == PollOf(ClientTexts)

\* gps_set_raw_hook(gpsdata, hook)
SetRawHook ==
    /\ ~crashed
    /\ \E hook \in BOOLEAN :
          /\ hook # session.raw_hook
          /\ session' = [session EXCEPT !.raw_hook = hook]
    /\ UNCHANGED <<polls, inbuf, pollbuf, mask, hooked, fault, crashed>>
    /\ UNCHANGED sfvars
    /\ UNCHANGED logvars

ClientNext == Poll \/ SetRawHook

\* the daemon sends satellite tables
SatPoll == PollOf(SatTexts)

\* the daemon sends fragments of single tags
TagPoll == PollOf(TagTexts)

SpecClient == Init /\ [][ClientNext]_vars

SpecSat == Init /\ [][SatPoll]_vars

SpecTags == Init /\ [][TagPoll]_vars

-----------------------------------------------------------------------------
(* gpxlogger.c: the track log. One action per statement of                 *)
(* conditionally_log_fix, so that the signal handler can run between any   *)
(* two of them; minmove keeps its default 0 (line 41), so the tests of     *)
(* lines 141 and 167 are false                                             *)

\* static time_t timeout
timeout == 5
MODE_2D == 2

\* the calls of conditionally_log_fix
MaxFixes == 3

\* the fixes a client hands over: seconds 1.0, 1.5, 2.0 and 10.0, without a
\* fix (MODE_NO_FIX) and with a 3D fix
Fixes == [time : {Dec(10, 1), Dec(15, 1), Dec(20, 1), Dec(100, 1)}, mode : {1, 3}]

\* floor(x) of a double held as a decimal fraction
floor(d) == d.m \div (10 ^ d.e)

fabs(x) == IF x < 0 THEN -x ELSE x

\* what the print functions write to logfile, one element each
print_gpx_trk_start(out) == Append(out, "<trk>")
print_gpx_trk_end(out) == Append(out, "</trk>")
print_fix(out) == Append(out, "<trkpt>")
print_gpx_footer(out) ==
    Append(IF intrack THEN print_gpx_trk_end(out) ELSE out, "</gpx>")

\* lines 136-143: int_time is set, and the fix is dropped when it is of the
\* same second as the last one logged or has no position
Entered(gpsfix) ==
    /\ int_time' = floor(gpsfix.time)
    /\ pc' = IF int_time' = old_int_time \/ gpsfix.mode < MODE_2D
             THEN "main" ELSE "153"
    /\ calls' = calls + 1
    /\ UNCHANGED <<intrack, first, old_int_time, logfile>>

conditionally_log_fix ==
    /\ pc = "main"
    /\ calls < MaxFixes
    /\ \E gpsfix \in Fixes : Entered(gpsfix)
    /\ UNCHANGED <<sfvars, clientvars>>

\* lines 153-154: the test of the jump in time, and print_gpx_trk_end()
Line153 ==
    /\ pc = "153"
    /\ IF fabs(int_time - old_int_time) > timeout /\ ~first
       THEN logfile' = print_gpx_trk_end(logfile) /\ pc' = "155"
       ELSE logfile' = logfile /\ pc' = "159"
    /\ UNCHANGED <<calls, intrack, first, int_time, old_int_time>>
    /\ UNCHANGED <<sfvars, clientvars>>

\* line 155: intrack = false
Line155 ==
    /\ pc = "155"
    /\ intrack' = FALSE
    /\ pc' = "159"
    /\ UNCHANGED <<calls, first, int_time, old_int_time, logfile>>
    /\ UNCHANGED <<sfvars, clientvars>>

\* lines 159-160: the test of intrack, and print_gpx_trk_start()
Line159 ==
    /\ pc = "159"
    /\ IF ~intrack
       THEN logfile' = print_gpx_trk_start(logfile) /\ pc' = "161"
       ELSE logfile' = logfile /\ pc' = "166"
    /\ UNCHANGED <<calls, intrack, first, int_time, old_int_time>>
    /\ UNCHANGED <<sfvars, clientvars>>

\* lines 161-163: intrack = true, first = false
Line161 ==
    /\ pc = "161"
    /\ intrack' = TRUE
    /\ first' = FALSE
    /\ pc' = "166"
    /\ UNCHANGED <<calls, int_time, old_int_time, logfile>>
    /\ UNCHANGED <<sfvars, clientvars>>

\* lines 166-171: old_int_time = int_time, print_fix(), return
Line166 ==
    /\ pc = "166"
    /\ old_int_time' = int_time
    /\ logfile' = print_fix(logfile)
    /\ pc' = "main"
    /\ UNCHANGED <<calls, intrack, first, int_time>>
    /\ UNCHANGED <<sfvars, clientvars>>

\* quit_handler(signum): the signal is delivered wherever the program is;
\* print_gpx_footer(), exit(0)
quit_handler ==
    /\ pc # "exit"
    /\ logfile' = print_gpx_footer(logfile)
    /\ pc' = "exit"
    /\ UNCHANGED <<calls, intrack, first, int_time, old_int_time>>
    /\ UNCHANGED <<sfvars, clientvars>>

LogNext ==
    \/ conditionally_log_fix
    \/ Line153
    \/ Line155
    \/ Line159
    \/ Line161
    \/ Line166
    \/ quit_handler

SpecLog == Init /\ [][LogNext]_vars

-----------------------------------------------------------------------------
(* Properties of the subframe decoder (specification Spec) *)

\* C1: when a subframe 4 / page 56 is decoded whose current-leap-second field
\* is lower than the leap_seconds stored in the context, whatever that stored
\* value is, leap_seconds is left unchanged and LEAP_SECOND_VALID is cleared.
C1_LeapRegressionKeepsStored ==
    [][(/\ entry' # "idle" /\ sent'.pre = 116 /\ flip' = NoFlip
        /\ sent'.sf = 4 /\ sent'.page = 56 /\ sent'.leap < leap_seconds)
          => (leap_seconds' = leap_seconds /\ "LEAP_SECOND_VALID" \notin valid')]_vars

\* C2: over any sequence of decode calls on one context, leap_seconds never
\* decreases: after each call it is at least what it was before the call.
C2_LeapNeverDecreases == [][leap_seconds' >= leap_seconds]_vars

\* C3: a subframe that is otherwise valid, with one of the six parity bits of
\* one word i in 1..9 flipped, makes gpsd_interpret_subframe_raw report a
\* parity failure for exactly word i, and gpsd_interpret_subframe is not run.
C3_ParityFlipIsReported ==
    (entry = "raw" /\ sent.pre = 116 /\ flip # NoFlip)
        => reports = <<Report("LOG_IO", "gpsd_interpret_subframe_raw", 0),
                       Report("LOG_IO", "parity fail words", flip[1])>>

C3_Witness ==
    /\ entry = "raw" /\ sent.pre = 116 /\ flip = <<9, 5>>
    /\ NatOf(inwords[0], 22, 8) = 139
    /\ reports[Len(reports)] = Report("LOG_IO", "parity fail words", 9)

\* C4: for a subframe with a valid preamble, canonical or inverted, and the
\* right parity on each of words 1..9, gpsd_interpret_subframe_raw never takes
\* the parity exit and hands the ten 24-bit data words to
\* gpsd_interpret_subframe.
C4_ValidSubframeReachesDecoder ==
    (entry = "raw" /\ sent.pre = 116 /\ flip = NoFlip)
        => /\ \A j \in 1..Len(reports) : reports[j].msg # "parity fail words"
           /\ reports[2] = Report("LOG_IO", "gpsd_interpret_subframe", 0)
           /\ words = [i \in 0..9 |-> ToU32(DataWords(sent)[i])]

C4_Witness ==
    /\ entry = "raw" /\ sent.pre = 116 /\ flip = NoFlip
    /\ NatOf(inwords[0], 22, 8) = 139
    /\ sent.sf = 4 /\ sent.page = 56
    /\ reports[2].msg = "gpsd_interpret_subframe"
    /\ NatOf(words[8], 16, 8) = sent.leap

\* C5: a subframe whose word 0 comes in the inverted form (preamble 0x8b, data
\* bits complemented) leaves the same words, the same reports and the same
\* context as the subframe with word 0 in the plain form and the other nine
\* words the same, through gpsd_interpret_subframe_raw and through a direct
\* call of gpsd_interpret_subframe.
C5_InvertedWord0DecodesAlike ==
    [][/\ (entry' = "raw" /\ NatOf(inwords'[0], 22, 8) = 139)
            => LET plain == [inwords' EXCEPT ![0] = BitXor(@, 6..29)]
                   r == gpsd_interpret_subframe_raw(
                            Context(gps_week, leap_seconds, valid), plain)
               IN /\ NatOf(plain[0], 22, 8) = 116
                  /\ words' = r.words
                  /\ reports' = r.reports
                  /\ Context(gps_week', leap_seconds', valid') = r.ctx
       /\ (entry' = "direct" /\ NatOf(inwords'[0], 16, 8) = 139)
            => LET plain == [inwords' EXCEPT ![0] = BitXor(@, 0..23)]
                   r == gpsd_interpret_subframe(
                            Context(gps_week, leap_seconds, valid), plain)
               IN /\ NatOf(plain[0], 16, 8) = 116
                  /\ words' = r.words
                  /\ reports' = r.reports
                  /\ Context(gps_week', leap_seconds', valid') = r.ctx]_vars

C5_Witness ==
    /\ entry = "raw" /\ flip = NoFlip
    /\ NatOf(inwords[0], 22, 8) = 139
    /\ NatOf(words[0], 16, 8) = 116
    /\ sent.sf = 1 /\ sent.wn = 256 /\ gps_week = 256

\* C6: when a subframe is rejected, for a bad preamble in word 0 or a parity
\* mismatch in any of words 1..9, gps_week, leap_seconds and valid are what
\* they were before the call.
C6_RejectedLeavesContext ==
    [][(entry' # "idle" /\ (sent'.pre # 116 \/ flip' # NoFlip))
          => UNCHANGED ctxvars]_vars

C6_Witness ==
    /\ entry = "raw" /\ flip[1] = 9
    /\ sent.pre = 116 /\ sent.sf = 1 /\ sent.wn = 1023
    /\ gps_week = 256

\* C7: decoding an accepted subframe (sent with the preamble 0x74 and received
\* with every bit right) with id 1 sets gps_week to the week number
\* sent in the top 10 bits of data word 2, whatever the week was before;
\* decoding a subframe with any other id leaves gps_week unchanged.
C7_Subframe1SetsWeek ==
    [][(entry' # "idle" /\ sent'.pre = 116 /\ flip' = NoFlip)
          => IF sent'.sf = 1
             THEN gps_week' = sent'.wn /\ gps_week' = DataWords(sent')[2] \div 16384
             ELSE gps_week' = gps_week]_vars

C7_Witness ==
    /\ entry # "idle" /\ sent.pre = 116 /\ flip = NoFlip
    /\ sent.sf = 1 /\ sent.wn = 256
    /\ NatOf(words[2], 14, 10) = 256
    /\ gps_week = 256

-----------------------------------------------------------------------------
(* Properties of the client library (specification SpecClient) *)

\* C8: unpacking one sentence with a single well-formed position fragment,
\* "GPSD,P=<lat> <lon>\r", sets latitude and longitude to the pair, changes no
\* other field of the session, and returns exactly the position bit.
C8_PositionFragment ==
    [][\A p \in Positions :
          (polls' = polls + 1 /\ inbuf' = Sentence(<<PFragment(p[1], p[2])>>))
             => /\ session' = [session EXCEPT !.latitude = p[1].val,
                                              !.longitude = p[2].val]
                /\ mask' = {"LATLON_SET"}]_vars

C8_Witness ==
    /\ polls > 0
    /\ inbuf = Sentence(<<PFragment(N37_1, N122_3)>>)
    /\ session.latitude = Dec(371, 1)
    /\ session.longitude = Dec(-1223, 1)
    /\ session.status = 1
    /\ mask = {"LATLON_SET"}

\* C9: when gps_unpack is called twice in a row with the same text and the
\* second call changes no field of the session, the second call returns the
\* empty mask.
C9_SameTextTwiceEmptyMask ==
    [][(polls > 0 /\ polls' = polls + 1 /\ inbuf' = inbuf /\ session' = session)
          => mask' = {}]_vars

\* C10: for a buffer of two concatenated sentences, gps_unpack leaves what two
\* calls, one per sentence in buffer order, leave, and returns the union of
\* the two masks.
C10_TwoSentencesAsTwoCalls ==
    [][\A s, t \in SentenceSet(1) :
          (polls' = polls + 1 /\ inbuf' = s \o t)
             => LET one == gps_unpack(session, s \o <<NUL>>, 0)
                    two == gps_unpack(one.g, t \o <<NUL>>, 0)
                IN /\ session' = two.g
                   /\ mask' = one.changed \cup two.changed]_vars

C10_Witness ==
    /\ polls > 0
    /\ inbuf = Sentence(<<DFragment>>) \o Sentence(<<SFragment>>)
    /\ session.utc = <<"9", "Z", CR, "G", "P", "S", "D">>
    /\ session.status = 1

\* C14: with a raw hook registered, every call invokes it exactly once, with
\* a buffer whose content is the text that was passed in; with no hook
\* registered nothing is invoked.
C14_RawHookGetsOriginalInput ==
    [][polls' = polls + 1
          => hooked' = IF session.raw_hook THEN <<inbuf' \o <<NUL>>>> ELSE <<>>]_vars

C14_Witness ==
    /\ polls > 0
    /\ inbuf = Sentence(<<PFragment(N1_0, N2_0), SFragment>>)
    /\ Len(hooked) = 1
    /\ CString(hooked[1], 1) = GPSD \o <<",">> \o PFragment(N1_0, N2_0)

-----------------------------------------------------------------------------
(* Properties of the satellite table (specification SpecSat) *)

\* the five satellite arrays of a session
SatArrays(g) == <<g.PRN, g.elevation, g.azimuth, g.ss, g.used>>

\* C11: unpacking a satellite-table fragment with count 0 on a session whose
\* table holds entries leaves the five satellite arrays cleared, sets the
\* satellite count to 0 and sets the satellites-changed bit in the mask.
C11_EmptyTableClearsArrays ==
    [][(/\ polls' = polls + 1 /\ inbuf' = Sentence(<<YFragment0>>)
        /\ session.satellites > 0)
          => /\ SatArrays(session') = [a \in 1..5 |-> Channels(0)]
             /\ session'.satellites = 0
             /\ "SATELLITE_SET" \in mask']_vars

C11_Witness ==
    /\ polls > 1 /\ inbuf = Sentence(<<YFragment0>>)
    /\ session.satellites = 0
    /\ session.PRN[0] = 3 /\ session.PRN[1] = 7
    /\ mask = {"SATELLITE_SET"}

\* C12: unpacking a well-formed satellite-table fragment with count n and n
\* groups replaces the table as one batch: entries 0..n-1 of the five arrays
\* hold the n groups in order, and every entry of the arrays is determined by
\* the input alone, whatever the table and the memory held before.
C12_TableReplacedAsBatch ==
    [][\A t \in Tables :
          (polls' = polls + 1 /\ inbuf' = Sentence(<<YFragment(t)>>))
             => /\ session'.satellites = Len(t.groups)
                /\ \A j \in 1..Len(t.groups), a \in 1..5 :
                      SatArrays(session')[a][j - 1] = t.groups[j][a]
                /\ \A junk \in JunkVals :
                      SatArrays(session')
                         = SatArrays(gps_unpack(gps_open, inbuf' \o <<NUL>>, junk).g)]_vars

C12_Witness ==
    /\ polls > 0 /\ inbuf = Sentence(<<YFragment(Table1)>>)
    /\ session.satellites = 1
    /\ session.PRN[0] = 5 /\ session.used[0] = 1
    /\ session.PRN[1] = 170

\* C17: whatever count a satellite-table fragment announces, gps_unpack never
\* reads or writes a satellite array outside 0..MAXCHANNELS-1, and the count
\* stored in the session is between 0 and MAXCHANNELS.
C17_SatelliteIndicesInBounds ==
    /\ fault # "overflow"
    /\ session.satellites \in 0..MAXCHANNELS

C17_Witness ==
    /\ inbuf = Sentence(<<YFragmentOver>>)
    /\ fault = "overflow"
    /\ ~crashed
    /\ session.satellites = MAXCHANNELS + 1
    /\ session.PRN[MAXCHANNELS - 1] = 12

-----------------------------------------------------------------------------
(* Properties of the single tags (specification SpecTags) *)

\* C13: when the value of a fragment is no number, the call leaves the field
\* as it was, does not return the field's bit, and still processes the
\* fragment behind it, in the same sentence or in the next.
C13_MalformedLeavesField ==
    [][\A q \in Malformed :
          (/\ polls' = polls + 1
           /\ inbuf' \in {Sentence(<<q>>) \o Sentence(<<VFragment>>),
                          Sentence(<<q, VFragment>>)})
             => /\ session' = [session EXCEPT !.speed = N2_0.val]
                /\ mask' = {"SPEED_SET"}]_vars

C13_Witness ==
    /\ polls > 1
    /\ inbuf = Sentence(<<AFragmentBad, VFragment>>)
    /\ session.altitude = N37_1.val
    /\ session.speed = N2_0.val
    /\ mask = {"ALTITUDE_SET", "SPEED_SET"}

\* C15: a fragment whose third character is '?' changes no field and sets no
\* bit, and the fragment behind it in the same sentence is processed: alone
\* it leaves the session as it was and the mask empty, and with an assigning
\* fragment behind it the call does what that fragment does.
C15_PlaceholderSkipped ==
    [][\A q \in Placeholders :
          /\ (polls' = polls + 1 /\ inbuf' = Sentence(<<q>>))
                => (session' = session /\ mask' = {})
          /\ \A i \in DOMAIN Assigning :
                (polls' = polls + 1 /\ inbuf' = Sentence(<<q, Assigning[i].text>>))
                   => /\ session' = [session EXCEPT ![Assigning[i].field] = Assigning[i].val]
                      /\ mask' = {Assigning[i].bit}]_vars

C15_Witness ==
    /\ polls > 1
    /\ inbuf = Sentence(<<<<"S", "=", "?">>, MFragment>>)
    /\ session.status = 1
    /\ session.mode = 3
    /\ mask = {"MODE_SET"}

\* C16: a fragment assigns only the fields of its tag and sets only their bit:
\* an I fragment replaces the identifier and leaves the mode and the mode bit
\* alone; an X fragment assigns online, sets the online bit and leaves the
\* speed alone.
C16_TagAssignsOnlyItsFields ==
    [][/\ (polls' = polls + 1 /\ inbuf' = Sentence(<<IFragment>>))
             => /\ session' = [session EXCEPT !.gps_id = <<SubSeq(IFragment, 3, 5)>>]
                /\ "MODE_SET" \notin mask'
       /\ (polls' = polls + 1 /\ inbuf' = Sentence(<<XFragment>>))
             => /\ session' = [session EXCEPT !.online = N1_0.val]
                /\ mask' = {"ONLINE_SET"}]_vars

C16_Witness ==
    /\ polls > 1
    /\ inbuf = Sentence(<<IFragment>>)
    /\ session.gps_id = <<SubSeq(IFragment, 3, 5)>>
    /\ session.speed = N2_0.val
    /\ session.mode = 0
    /\ mask = {"MODE_SET"}

-----------------------------------------------------------------------------
(* Properties of the track log (specification SpecLog) *)

\* C18: whatever fixes are logged and wherever the signal arrives, the log is
\* well nested: track starts and track ends alternate, beginning with a start
\* (after every element no or one track is open), every track point is
\* written inside an open track, and once the footer is written no track is
\* left open.
C18_GpxWellNested ==
    LET \* the tracks open after the first n elements: starts less ends
        Depth(n) ==
            Cardinality({i \in 1..n : logfile[i] = "<trk>"})
                - Cardinality({i \in 1..n : logfile[i] = "</trk>"})
    IN /\ \A n \in 1..Len(logfile) :
             /\ Depth(n) \in {0, 1}
             /\ logfile[n] = "<trkpt>" => Depth(n) = 1
       /\ pc = "exit" => Depth(Len(logfile)) = 0

\* the signal between print_gpx_trk_start() and intrack = true: the log ends
\* with a track left open
C18_Witness ==
    /\ pc = "exit"
    /\ ~intrack
    /\ logfile = <<"<trk>", "</gpx>">>

=============================================================================
